---- MODULE Spec2Model ----
(***************************************************************************)
(* Model of the PCB dataset accessor (pcbdataset.cpp / pcbdataset.hpp):    *)
(* the Annot value type, and one PCB instance with its recordings, its     *)
(* crop cache (_cache_cropinfo) and its annotation cache (_cache_ics).     *)
(*                                                                         *)
(* Floats are modelled as exact rationals [k, n, d] extended with the two  *)
(* IEEE outcomes of a division by zero (k = "inf", k = "nan"); rounding is *)
(* not modelled.  The files of the PCB directory are fixed when the PCB    *)
(* is constructed and are an input of the model.                           *)
(***************************************************************************)
EXTENDS Integers, Sequences, FiniteSets, TLC

----------------------------------------------------------------------------
(* Float arithmetic *)

Abs(x) == IF x < 0 THEN -x ELSE x

RECURSIVE Gcd(_, _)
Gcd(a, b) == IF b = 0 THEN a ELSE Gcd(b, a % b)

\* the float n/d (d # 0), in lowest terms with a positive denominator
Rat(n, d) ==
    LET g == Gcd(Abs(n), Abs(d))
        s == IF d < 0 THEN -1 ELSE 1
    IN  [k |-> "num", n |-> (s * n) \div g, d |-> (s * d) \div g]

F(n) == Rat(n, 1)
NaN == [k |-> "nan", n |-> 0, d |-> 1]

FMul(a, b) == Rat(a.n * b.n, a.d * b.d)
FSub(a, b) == Rat(a.n * b.d - b.n * a.d, a.d * b.d)

\* IEEE division: x/0 is +-inf for x # 0 and NaN for x = 0
FDiv(a, b) ==
    IF b.n # 0 THEN Rat(a.n * b.d, a.d * b.n)
    ELSE IF a.n = 0 THEN NaN
    ELSE [k |-> "inf", n |-> (IF a.n > 0 THEN 1 ELSE -1), d |-> 1]

\* IEEE comparison: every comparison with NaN is false
FLt(a, b) ==
    CASE a.k = "nan" \/ b.k = "nan" -> FALSE
      [] a.k = "inf" /\ b.k = "inf" -> a.n < b.n
      [] a.k = "inf" -> a.n < 0
      [] b.k = "inf" -> b.n > 0
      [] OTHER -> a.n * b.d < b.n * a.d

FGt(a, b) == FLt(b, a)
FEq(a, b) == a.k # "nan" /\ b.k # "nan" /\ a = b
FLe(a, b) == FLt(a, b) \/ FEq(a, b)
FGe(a, b) == FLe(b, a)

\* std::max(a, b) = (a < b) ? b : a,  std::min(a, b) = (b < a) ? b : a
FMax(a, b) == IF FLt(a, b) THEN b ELSE a
FMin(a, b) == IF FLt(b, a) THEN b ELSE a

----------------------------------------------------------------------------
(* Annot *)

\* pixels per cm, 87.4, as the fraction 874/10
PxPerCmNum == 874
PxPerCmDen == 10
PxPerCm == Rat(PxPerCmNum, PxPerCmDen)

\* cv::RotatedRect(center, size, angle)
RotatedRect(cx, cy, w, h, angle) ==
    [cx |-> cx, cy |-> cy, w |-> w, h |-> h, angle |-> angle]

\* Annot::Annot(rect, scale, text)
Annot(rect, scale, text) == [rect |-> rect, scale |-> scale, text |-> text]

\* Annot::sizePixels
SizePixels(a, scaled) ==
    LET sz == FMul(a.rect.w, a.rect.h)
    IN  IF ~scaled THEN FDiv(sz, a.scale) ELSE sz

\* Annot::sizeCm2
SizeCm2(a, scaled) ==
    LET sz == FMul(FDiv(a.rect.w, PxPerCm), FDiv(a.rect.h, PxPerCm))
    IN  IF ~scaled THEN FDiv(sz, a.scale) ELSE sz

\* Annot::aspect
Aspect(a) == FDiv(FMax(a.rect.w, a.rect.h), FMin(a.rect.w, a.rect.h))

----------------------------------------------------------------------------
(* Text of an annotation file *)

\* A line is a sequence of atoms: a space, or a maximal run of non-space
\* characters (a chunk).  A chunk is a decimal literal (t = "num", value n),
\* a decimal literal followed by other characters (t = "numjunk", the
\* literal's value n and the trailing characters s), or a run that does not
\* start with a number (t = "word", characters s).
SP == [t |-> "sp", n |-> 0, s |-> " "]
Num(v) == [t |-> "num", n |-> v, s |-> ""]
NumJunk(v, str) == [t |-> "numjunk", n |-> v, s |-> str]
Word(str) == [t |-> "word", n |-> 0, s |-> str]
\* the empty string, a token boost::split yields between two separators
Empty == [t |-> "empty", n |-> 0, s |-> ""]

\* boost::split(split, line, boost::is_any_of(" ")): token compression is off,
\* so n spaces give n + 1 tokens and adjacent spaces give empty tokens
RECURSIVE SplitFrom(_, _, _, _)
SplitFrom(line, i, cur, acc) ==
    IF i > Len(line) THEN Append(acc, cur)
    ELSE IF line[i].t = "sp" THEN SplitFrom(line, i + 1, Empty, Append(acc, cur))
    ELSE SplitFrom(line, i + 1, line[i], acc)

Split(line) == SplitFrom(line, 1, Empty, <<>>)

\* std::stof: converts the longest numeric prefix, throws std::invalid_argument
\* when there is none
StofThrows(tok) == tok.t \notin {"num", "numjunk"}
Stof(tok) == F(tok.n)

\* the label loop of PCB::ics: every non-empty token from index 5 on is
\* written, followed by a space unless it is the last element of split
RECURSIVE LabelFrom(_, _, _)
LabelFrom(split, i, ss) ==
    IF i > Len(split) THEN ss
    ELSE IF split[i] # Empty
         THEN LabelFrom(split, i + 1,
                        IF i < Len(split) THEN ss \o <<split[i], SP>>
                                          ELSE Append(ss, split[i]))
         ELSE LabelFrom(split, i + 1, ss)

\* split[5] of the code is the sixth element: index 6 of a 1-based sequence
Label(split) == LabelFrom(split, 6, <<>>)

----------------------------------------------------------------------------
(* The PCB directory: the input of the model *)

\* recording IDs the operations are called with
RecIds == {1, 2}

\* longest annotation file, in lines
MaxLines == 2

\* rec<ID>-annot.txt lines: "cx cy w h angle [label...]"
LineLabelled == <<Num(10), SP, Num(10), SP, Num(2), SP, Num(2), SP, Num(0), SP,
                  Word("R1"), SP, Num(402)>>
LineWide == <<Num(20), SP, Num(10), SP, Num(4), SP, Num(1), SP, Num(90)>>
LineBig == <<Num(6), SP, Num(6), SP, Num(4), SP, Num(4), SP, Num(0), SP,
             Word("U1"), SP>>
LineGap == <<Num(6), SP, Num(8), SP, Num(4), SP, Num(2), SP, Num(0), SP,
             Word("U"), SP, SP, Word("X"), SP, SP>>
LineShort == <<Num(1), SP, Num(2), SP, Num(3), SP, Num(4)>>
LineBadNum == <<Num(1), SP, Num(2), SP, Word("x"), SP, Num(4), SP, Num(5), SP,
                Word("Q")>>
LineJunk == <<Num(1), SP, Num(2), SP, NumJunk(3, "px"), SP, Num(4), SP, Num(5)>>
LineFlat == <<Num(3), SP, Num(3), SP, Num(0), SP, Num(2), SP, Num(0), SP,
              Word("Z")>>
LinePoint == <<Num(3), SP, Num(3), SP, Num(0), SP, Num(0), SP, Num(0)>>
LineNeg == <<Num(3), SP, Num(3), SP, Num(-2), SP, Num(2), SP, Num(0)>>
LineBlank == <<>>

\* the lines files of several lines are made of, and the lines that occur alone
Lines == {LineLabelled, LineWide, LineBig, LineShort, LineBadNum, LineFlat}
LoneLines == {LineGap, LineJunk, LinePoint, LineNeg, LineBlank}

RECURSIVE SeqsUpTo(_, _)
SeqsUpTo(S, n) ==
    IF n = 0 THEN {<<>>}
    ELSE LET shorter == SeqsUpTo(S, n - 1)
         IN  shorter \cup {Append(q, x) : q \in shorter, x \in S}

\* the annotation file of a recording: absent, or its lines
NoFile == [st |-> "missing", lines |-> <<>>]
AnnotFiles ==
    {NoFile} \cup {[st |-> "ok", lines |-> q] : q \in SeqsUpTo(Lines, MaxLines)}
             \cup {[st |-> "ok", lines |-> <<l>>] : l \in LoneLines}

\* what cv::findContours, cv::minAreaRect and cv::boundingRect give for one
\* external contour of the (resized) mask: the area of its minimum-area
\* rectangle and its axis-aligned bounding rectangle
Rect(x, y, w, h) == [x |-> x, y |-> y, w |-> w, h |-> h]
ContourSmall == [area |-> 20, box |-> Rect(0, 0, 4, 5)]
ContourBoard == [area |-> 100, box |-> Rect(2, 3, 10, 10)]
ContourTwin == [area |-> 100, box |-> Rect(4, 1, 10, 10)]

\* the mask file of a recording: absent, not decodable, or its contours
Masks == {[st |-> "missing", cnt |-> <<>>],
          [st |-> "bad", cnt |-> <<>>],
          [st |-> "ok", cnt |-> <<>>],
          [st |-> "ok", cnt |-> <<ContourBoard, ContourSmall>>],
          [st |-> "ok", cnt |-> <<ContourBoard, ContourTwin>>]}

\* size of the decoded and resized images
ImageSize == [cols |-> 16, rows |-> 16]

\* the rectangles a read of cnt[cnt.size()-1] on an empty vector can give
GarbageRects == {Rect(0, 0, 0, 0), Rect(-7, 5, 40, 3)}

\* PCB scale factors, all in (0, 2]
Scales == {Rat(1, 2), F(1), F(2)}

\* (min, max) arguments of ics
Cm2(px) == FDiv(FDiv(F(px), PxPerCm), PxPerCm)
Unbounded == <<F(0), F(0)>>
Negative == <<F(-1), F(-1)>>
\* <<size, aspect>> pairs
Filters == {<<Unbounded, Unbounded>>,
            <<<<Cm2(8), F(0)>>, Unbounded>>, <<<<F(0), Cm2(8)>>, Unbounded>>,
            <<Unbounded, <<F(2), F(0)>>>>, <<Unbounded, <<F(0), F(2)>>>>,
            <<<<Cm2(4), Cm2(8)>>, <<F(1), F(2)>>>>,
            <<Negative, Unbounded>>, <<Unbounded, Negative>>}

----------------------------------------------------------------------------
(* State of one PCB instance *)

VARIABLES
    fs,              \* the files of the PCB directory, per recording ID
    scale,           \* PCB::scale
    _recordings,     \* keys of PCB::_recordings
    _cache_cropinfo, \* PCB::_cache_cropinfo: recording ID -> crop rectangle
    _cache_ics,      \* PCB::_cache_ics: recording ID -> annotation list
    last,            \* the call the caller is looking at: operation, arguments
                     \* and outcome (op = "none" between two calls)
    analyses,        \* per recording ID, how often a crop rectangle was computed
    before,          \* both caches and analyses as they were when the call began
    crashed          \* the process was ended by a fault

vars == <<fs, scale, _recordings, _cache_cropinfo, _cache_ics, last, analyses, before, crashed>>

\* analyses is counted up to this number
MaxRuns == 2

\* outcomes of a call: "ok", the message of the exception thrown, or the fault
NotFound == "Recording does not exist."
DecodeError == "Could not load the image."
MissingMask == "Mask file does not exist."
MissingAnnotationFile == "Annotation file does not exist."
InvalidLine == "Invalid line encountered while parsing file."
StofError == "stof"
CvError == "cv::Exception"
Fault == "fault"

NoRect == Rect(0, 0, 0, 0)
NoRange == Unbounded

Call(op, rec, cropped, size, aspect, kind, list, box, hit) ==
    [op |-> op, rec |-> rec, cropped |-> cropped, size |-> size, aspect |-> aspect,
     kind |-> kind, list |-> list, box |-> box, hit |-> hit]

NoCall == Call("none", 0, FALSE, NoRange, NoRange, "ok", <<>>, NoRect, FALSE)

\* std::unordered_map::insert: adds the pair unless the key is present
Insert(map, key, value) ==
    IF key \in DOMAIN map THEN map
    ELSE [x \in DOMAIN map \cup {key} |-> IF x = key THEN value ELSE map[x]]

EmptyMap == [x \in {} |-> 0]

CachedNever(map, key) == FALSE

\* map.count(key) == 1
Cached(map, key) == key \in DOMAIN map

RegisteredAlways(rec) == TRUE

\* _recordings.count(rec) == 0 is false
Registered(rec) == rec \in _recordings

\* PCB::image: the outcome
Image(rec) ==
    IF ~Registered(rec) THEN NotFound
    ELSE IF fs[rec].image # "ok" THEN DecodeError
    ELSE "ok"

\* PCB::mask: the outcome
Mask(rec) ==
    IF ~Registered(rec) THEN NotFound
    ELSE IF fs[rec].mask.st = "missing" THEN MissingMask
    ELSE IF fs[rec].mask.st = "bad" THEN DecodeError
    ELSE "ok"

CropOutcome(kind, box, cache, ran) ==
    [kind |-> kind, box |-> box, cache |-> cache, ran |-> ran]

\* the contours std::sort can leave in the last place: those of largest area
LargestContours(cnt) ==
    {cnt[i] : i \in {j \in 1..Len(cnt) : \A m \in 1..Len(cnt) : cnt[m].area <= cnt[j].area}}

\* PCB::_cropinfo with the crop cache `cache`: the set of possible outcomes.
\* With no contour, cnt[cnt.size()-1] reads outside the empty vector: the
\* process faults, cv::boundingRect throws, or some rectangle is stored.
CropInfo(rec, cache) ==
    IF Cached(cache, rec) THEN {CropOutcome("ok", cache[rec], cache, 0)}
    ELSE IF Mask(rec) # "ok" THEN {CropOutcome(Mask(rec), NoRect, cache, 0)}
    ELSE IF fs[rec].mask.cnt = <<>>
         THEN {CropOutcome(Fault, NoRect, cache, 0), CropOutcome(CvError, NoRect, cache, 0)}
              \cup {CropOutcome("ok", Insert(cache, rec, g)[rec], Insert(cache, rec, g), 1) :
                       g \in GarbageRects}
    ELSE {CropOutcome("ok", Insert(cache, rec, c.box)[rec], Insert(cache, rec, c.box), 1) :
             c \in LargestContours(fs[rec].mask.cnt)}

\* im(ci): cv::Mat::operator() throws unless the rectangle lies in the image
InImage(r) ==
    /\ 0 <= r.x /\ 0 <= r.w /\ r.x + r.w <= ImageSize.cols
    /\ 0 <= r.y /\ 0 <= r.h /\ r.y + r.h <= ImageSize.rows

RejectedInclusive(tmp, size, aspect) ==
    \/ FGt(size[1], F(0)) /\ FLe(SizeCm2(tmp, FALSE), size[1])
    \/ FGt(size[2], F(0)) /\ FGe(SizeCm2(tmp, FALSE), size[2])
    \/ FGt(aspect[1], F(0)) /\ FLe(Aspect(tmp), aspect[1])
    \/ FGt(aspect[2], F(0)) /\ FGe(Aspect(tmp), aspect[2])

\* the filters of PCB::ics on the unscaled annotation tmp
Rejected(tmp, size, aspect) ==
    \/ FGt(size[1], F(0)) /\ FLt(SizeCm2(tmp, FALSE), size[1])
    \/ FGt(size[2], F(0)) /\ FGt(SizeCm2(tmp, FALSE), size[2])
    \/ FGt(aspect[1], F(0)) /\ FLt(Aspect(tmp), aspect[1])
    \/ FGt(aspect[2], F(0)) /\ FGt(Aspect(tmp), aspect[2])

\* rr after "if(scale != 1) { ... }"
Scaled(rr, sc) ==
    IF sc # F(1)
    THEN [rr EXCEPT !.cx = FMul(@, sc), !.cy = FMul(@, sc),
                    !.w = FMul(@, sc), !.h = FMul(@, sc)]
    ELSE rr

ShiftedSwapped(rr, ci) == [rr EXCEPT !.cx = FSub(@, F(ci.y)), !.cy = FSub(@, F(ci.x))]

\* rr after "rr.center.x -= ci.x; rr.center.y -= ci.y"
Shifted(rr, ci) == [rr EXCEPT !.cx = FSub(@, F(ci.x)), !.cy = FSub(@, F(ci.y))]

IcsOutcome(kind, ret, cache, ran) ==
    [kind |-> kind, ret |-> ret, cache |-> cache, ran |-> ran]

\* the while loop of PCB::ics from line i on, with the annotations `ret` so
\* far, the crop cache `cache` and `ran` crop computations: the set of
\* possible outcomes
RECURSIVE IcsLoop(_, _, _, _, _, _, _, _, _)
IcsLoop(rec, lines, i, ret, cache, ran, cropped, size, aspect) ==
    IF i > Len(lines) THEN {IcsOutcome("ok", ret, cache, ran)}
    ELSE
    LET split == Split(lines[i]) IN
    IF Len(split) < 5 THEN {IcsOutcome(InvalidLine, <<>>, cache, ran)}
    ELSE IF \E j \in 1..5 : StofThrows(split[j]) THEN {IcsOutcome(StofError, <<>>, cache, ran)}
    ELSE
    LET rr == RotatedRect(Stof(split[1]), Stof(split[2]), Stof(split[3]),
                          Stof(split[4]), Stof(split[5]))
        tmp == Annot(rr, F(1), <<>>)
    IN
    IF Rejected(tmp, size, aspect)
    THEN IcsLoop(rec, lines, i + 1, ret, cache, ran, cropped, size, aspect)
    ELSE IF cropped
    THEN UNION {
           IF o.kind = "ok"
           THEN IcsLoop(rec, lines, i + 1,
                        Append(ret, Annot(Shifted(Scaled(rr, scale), o.box), scale, Label(split))),
                        o.cache, ran + o.ran, cropped, size, aspect)
           ELSE {IcsOutcome(o.kind, <<>>, o.cache, ran + o.ran)}
           : o \in CropInfo(rec, cache)}
    ELSE IcsLoop(rec, lines, i + 1,
                 Append(ret, Annot(Scaled(rr, scale), scale, Label(split))),
                 cache, ran, cropped, size, aspect)

Counted(rec, ran) ==
    [analyses EXCEPT ![rec] = IF @ + ran > MaxRuns THEN MaxRuns ELSE @ + ran]

----------------------------------------------------------------------------
(* Operations *)

\* what the PCB directory holds for one recording ID: rec<ID>.jpg (absent,
\* not decodable or decodable), rec<ID>-mask.png and rec<ID>-annot.txt
Recording(i, m, a) == [image |-> i, mask |-> m, annot |-> a]
NoJpg == Recording("absent", [st |-> "ok", cnt |-> <<ContourBoard>>],
                   [st |-> "ok", lines |-> <<LineLabelled>>])
FewRecordings ==
    {NoJpg,
     Recording("ok", [st |-> "ok", cnt |-> <<ContourBoard, ContourTwin>>],
               [st |-> "ok", lines |-> <<LineLabelled, LineBig>>]),
     Recording("ok", [st |-> "ok", cnt |-> <<>>],
               [st |-> "ok", lines |-> <<LineWide, LineShort>>]),
     Recording("bad", [st |-> "missing", cnt |-> <<>>], NoFile)}
AllRecordings == {Recording("ok", m, a) : m \in Masks, a \in AnnotFiles}

\* PCB::PCB with a valid root and scale: the recordings are the IDs with a
\* rec<ID>.jpg and both caches are empty.  Either recording 1 has any of the
\* directories of AllRecordings and recording 2 has no image, or both
\* recordings have one of FewRecordings.
Init ==
    /\ \E r1 \in AllRecordings \cup FewRecordings, r2 \in FewRecordings :
          /\ r1 \in FewRecordings \/ r2 = NoJpg
          /\ fs = (1 :> r1 @@ 2 :> r2)
    /\ scale \in Scales
    /\ _recordings = {r \in RecIds : fs[r].image # "absent"}
    /\ _cache_cropinfo = EmptyMap
    /\ _cache_ics = EmptyMap
    /\ last = NoCall
    /\ analyses = [r \in RecIds |-> 0]
    /\ before = [ics |-> EmptyMap, crop |-> EmptyMap, analyses |-> [r \in RecIds |-> 0]]
    /\ crashed = FALSE

\* the state a call starts from
Snapshot == [ics |-> _cache_ics, crop |-> _cache_cropinfo, analyses |-> analyses]

\* cv::Mat PCB::image(int rec) const
image(rec) ==
    /\ ~crashed /\ last = NoCall
    /\ before' = Snapshot
    /\ last' = Call("image", rec, FALSE, NoRange, NoRange, Image(rec), <<>>, NoRect, FALSE)
    /\ UNCHANGED <<fs, scale, _recordings, _cache_cropinfo, _cache_ics, analyses, crashed>>

\* cv::Mat PCB::mask(int rec) const
mask(rec) ==
    /\ ~crashed /\ last = NoCall
    /\ before' = Snapshot
    /\ last' = Call("mask", rec, FALSE, NoRange, NoRange, Mask(rec), <<>>, NoRect, FALSE)
    /\ UNCHANGED <<fs, scale, _recordings, _cache_cropinfo, _cache_ics, analyses, crashed>>

\* cv::Mat PCB::imageMasked(int rec); image and mask have the same size, so
\* im.setTo(0, msk == 0) does not throw
imageMasked(rec) ==
    /\ ~crashed /\ last = NoCall
    /\ before' = Snapshot
    /\ IF Image(rec) # "ok"
       THEN /\ last' = Call("imageMasked", rec, FALSE, NoRange, NoRange, Image(rec), <<>>, NoRect, FALSE)
            /\ UNCHANGED <<_cache_cropinfo, analyses, crashed>>
       ELSE IF Mask(rec) # "ok"
       THEN /\ last' = Call("imageMasked", rec, FALSE, NoRange, NoRange, Mask(rec), <<>>, NoRect, FALSE)
            /\ UNCHANGED <<_cache_cropinfo, analyses, crashed>>
       ELSE \E o \in CropInfo(rec, _cache_cropinfo) :
            /\ _cache_cropinfo' = o.cache
            /\ analyses' = Counted(rec, o.ran)
            /\ crashed' = (o.kind = Fault)
            /\ last' = Call("imageMasked", rec, FALSE, NoRange, NoRange,
                            IF o.kind = "ok" /\ ~InImage(o.box) THEN CvError ELSE o.kind,
                            <<>>, o.box, Cached(_cache_cropinfo, rec))
    /\ UNCHANGED <<fs, scale, _recordings, _cache_ics>>

\* std::vector<Annot> PCB::ics(int rec, bool cropped, cv::Vec2f size, cv::Vec2f aspect)
ics(rec, cropped, size, aspect) ==
    /\ ~crashed /\ last = NoCall
    /\ before' = Snapshot
    /\ IF Cached(_cache_ics, rec)
       THEN /\ last' = Call("ics", rec, cropped, size, aspect, "ok", _cache_ics[rec], NoRect, TRUE)
            /\ UNCHANGED <<_cache_cropinfo, _cache_ics, analyses, crashed>>
       ELSE IF ~Registered(rec)
       THEN /\ last' = Call("ics", rec, cropped, size, aspect, NotFound, <<>>, NoRect, FALSE)
            /\ UNCHANGED <<_cache_cropinfo, _cache_ics, analyses, crashed>>
       ELSE IF fs[rec].annot.st = "missing"
       THEN /\ last' = Call("ics", rec, cropped, size, aspect, MissingAnnotationFile, <<>>, NoRect, FALSE)
            /\ UNCHANGED <<_cache_cropinfo, _cache_ics, analyses, crashed>>
       ELSE \E o \in IcsLoop(rec, fs[rec].annot.lines, 1, <<>>, _cache_cropinfo, 0,
                              cropped, size, aspect) :
            /\ _cache_cropinfo' = o.cache
            /\ analyses' = Counted(rec, o.ran)
            /\ crashed' = (o.kind = Fault)
            /\ _cache_ics' = IF o.kind = "ok" THEN Insert(_cache_ics, rec, o.ret) ELSE _cache_ics
            /\ last' = Call("ics", rec, cropped, size, aspect, o.kind,
                            IF o.kind = "ok" THEN Insert(_cache_ics, rec, o.ret)[rec] ELSE <<>>,
                            NoRect, FALSE)
    /\ UNCHANGED <<fs, scale, _recordings>>

\* the caller is done with the result of a call and goes on; the calls of
\* one PCB instance are made one after the other
Return ==
    /\ ~crashed /\ last # NoCall
    /\ last' = NoCall
    /\ before' = Snapshot
    /\ UNCHANGED <<fs, scale, _recordings, _cache_cropinfo, _cache_ics, analyses, crashed>>

Next ==
    \/ Return
    \/ \E rec \in RecIds : image(rec)
    \/ \E rec \in RecIds : mask(rec)
    \/ \E rec \in RecIds : imageMasked(rec)
    \/ \E rec \in RecIds, cropped \in BOOLEAN, f \in Filters :
          ics(rec, cropped, f[1], f[2])

Spec == Init /\ [][Next]_vars

----------------------------------------------------------------------------
(* Properties *)

Errors == {NotFound, DecodeError, MissingMask, MissingAnnotationFile, InvalidLine,
           StofError, CvError}

\* the latest call was an ics call that parsed the file and returned a list
FreshOk == last.op = "ics" /\ ~last.hit /\ last.kind = "ok"

FileLines(rec) == fs[rec].annot.lines

\* the five numbers of a line, as written in the file
FileRect(line) ==
    LET f == Split(line)
    IN  [cx |-> F(f[1].n), cy |-> F(f[2].n), w |-> F(f[3].n), h |-> F(f[4].n),
         angle |-> F(f[5].n)]

\* size in cm^2 and aspect ratio of the rectangle written in the file
FileSizeCm2(line) ==
    FDiv(FMul(FileRect(line).w, FileRect(line).h), FMul(PxPerCm, PxPerCm))
FileAspect(line) ==
    LET w == FileRect(line).w
        h == FileRect(line).h
    IN  FDiv(IF FLt(w, h) THEN h ELSE w, IF FLt(h, w) THEN h ELSE w)

\* the annotation ics makes of a line that passed the filters
MadeFrom(line, rec, cropped) ==
    LET rr == Scaled(FileRect(line), scale)
    IN  Annot(IF cropped THEN Shifted(rr, _cache_cropinfo[rec]) ELSE rr,
              scale, Label(Split(line)))

MadeFromAll(kept, rec, cropped) ==
    [i \in 1..Len(kept) |-> MadeFrom(kept[i], rec, cropped)]

\* the lines the code's filters let pass
Survivors(rec, size, aspect) ==
    SelectSeq(FileLines(rec),
              LAMBDA l : ~Rejected(Annot(FileRect(l), F(1), <<>>), size, aspect))

(* C1 *)
\* C1: once ics has succeeded for rec the cached list of rec is never
\* replaced or removed, the first success stores the list it returns, and
\* every later ics call for rec, whatever its arguments, succeeds and
\* returns that cached list.
C1_StickyCache ==
    /\ \A r \in DOMAIN before.ics :
          /\ r \in DOMAIN _cache_ics
          /\ _cache_ics[r] = before.ics[r]
          /\ (last.op = "ics" /\ last.rec = r)
                => (last.kind = "ok" /\ last.list = before.ics[r])
    /\ (last.op = "ics" /\ last.kind = "ok" /\ last.rec \notin DOMAIN before.ics)
          => (last.rec \in DOMAIN _cache_ics /\ _cache_ics[last.rec] = last.list)

\* an ics call answered from the cache although parsing the file with the
\* call's own arguments would give another list
C1_Witness ==
    /\ last.op = "ics" /\ last.hit /\ last.kind = "ok"
    /\ last.list = _cache_ics[last.rec]
    /\ \A o \in IcsLoop(last.rec, FileLines(last.rec), 1, <<>>, _cache_cropinfo, 0,
                         last.cropped, last.size, last.aspect) :
          o.kind = "ok" /\ o.ret # last.list

(* C2 *)
KeepClaimed(line, size, aspect) ==
    /\ size[1] = F(0) \/ FGe(FileSizeCm2(line), size[1])
    /\ size[2] = F(0) \/ FLe(FileSizeCm2(line), size[2])
    /\ aspect[1] = F(0) \/ FGe(FileAspect(line), aspect[1])
    /\ aspect[2] = F(0) \/ FLe(FileAspect(line), aspect[2])

KeepAmended(line, size, aspect) ==
    /\ ~(FGt(size[1], F(0)) /\ FLt(FileSizeCm2(line), size[1]))
    /\ ~(FGt(size[2], F(0)) /\ FGt(FileSizeCm2(line), size[2]))
    /\ ~(FGt(aspect[1], F(0)) /\ FLt(FileAspect(line), aspect[1]))
    /\ ~(FGt(aspect[2], F(0)) /\ FGt(FileAspect(line), aspect[2]))

\* C2 as stated: a first successful ics call returns, in file order, the
\* annotations of exactly the lines with (min = 0 or size >= min) and
\* (max = 0 or size <= max), and the same for the aspect ratio.
C2_FilterAsClaimed ==
    FreshOk =>
      last.list = MadeFromAll(SelectSeq(FileLines(last.rec),
                                        LAMBDA l : KeepClaimed(l, last.size, last.aspect)),
                              last.rec, last.cropped)

\* C2 amended: a first successful ics call returns, in file order, the
\* annotations of exactly the lines for which neither (min > 0 and
\* size < min) nor (max > 0 and size > max) holds, and the same for the
\* aspect ratio: a bound that is zero or negative does not filter.
C2_Filter ==
    FreshOk =>
      last.list = MadeFromAll(SelectSeq(FileLines(last.rec),
                                        LAMBDA l : KeepAmended(l, last.size, last.aspect)),
                              last.rec, last.cropped)

\* a first successful call whose filters drop one line and keep a later one
C2_Witness ==
    /\ FreshOk
    /\ Len(FileLines(last.rec)) = 2
    /\ last.size # Unbounded
    /\ ~KeepAmended(FileLines(last.rec)[1], last.size, last.aspect)
    /\ KeepAmended(FileLines(last.rec)[2], last.size, last.aspect)
    /\ Len(last.list) = 1

(* C3 *)
Malformed(line) ==
    \/ Len(Split(line)) < 5
    \/ \E j \in 1..5 : StofThrows(Split(line)[j])

\* C3: when a line of the annotation file of a registered rec has fewer
\* than 5 fields or a numeric field that does not parse, every ics call
\* for rec fails with an error, returns no list and caches nothing for rec.
C3_MalformedFails ==
    (/\ last.op = "ics"
     /\ last.rec \in _recordings
     /\ fs[last.rec].annot.st = "ok"
     /\ \E i \in 1..Len(FileLines(last.rec)) : Malformed(FileLines(last.rec)[i]))
    => (last.kind \in Errors /\ last.list = <<>> /\ last.rec \notin DOMAIN _cache_ics)

(* C4 *)
\* C4: every annotation ics returns, and every annotation in the
\* annotation cache, has a strictly positive width and height.
C4_PositiveSize ==
    /\ \A r \in DOMAIN _cache_ics : \A i \in 1..Len(_cache_ics[r]) :
          FGt(_cache_ics[r][i].rect.w, F(0)) /\ FGt(_cache_ics[r][i].rect.h, F(0))
    /\ \A i \in 1..Len(last.list) :
          FGt(last.list[i].rect.w, F(0)) /\ FGt(last.list[i].rect.h, F(0))

(* C5 *)
NoContours == "NoContours"

\* an uncached ics call with these arguments gets to the crop resolver: the
\* first line that is malformed or passes the filters passes the filters
ReachesCrop(rec, size, aspect) ==
    \E i \in 1..Len(FileLines(rec)) :
      /\ \A j \in 1..i : ~Malformed(FileLines(rec)[j])
      /\ \A j \in 1..(i - 1) : ~KeepAmended(FileLines(rec)[j], size, aspect)
      /\ KeepAmended(FileLines(rec)[i], size, aspect)

\* C5: when the mask of rec decodes and has no contour and no crop
\* rectangle is stored for rec, a call that gets to the crop resolver,
\* imageMasked(rec) or an uncached ics(rec, cropped = true, ...) with a
\* surviving annotation, fails with NoContours and stores no rectangle.
C5_NoContours ==
    (/\ last.rec \in _recordings
     /\ last.rec \notin DOMAIN before.crop
     /\ Mask(last.rec) = "ok"
     /\ fs[last.rec].mask.cnt = <<>>
     /\ \/ last.op = "imageMasked" /\ Image(last.rec) = "ok"
        \/ /\ last.op = "ics" /\ last.cropped /\ last.rec \notin DOMAIN before.ics
           /\ fs[last.rec].annot.st = "ok"
           /\ ReachesCrop(last.rec, last.size, last.aspect))
    => (last.kind = NoContours /\ last.rec \notin DOMAIN _cache_cropinfo)

(* C6 *)
\* the annotation a was made from, at scale 1
Unscaled(a) ==
    Annot([a.rect EXCEPT !.w = FDiv(@, a.scale), !.h = FDiv(@, a.scale)], F(1), a.text)

\* C6: for every annotation ics built with scale s from an unscaled
\* rectangle, sizeCm2(false) is the size in cm^2 of the unscaled rectangle.
C6_SizeCm2ScaleInvariant ==
    \A r \in DOMAIN _cache_ics : \A i \in 1..Len(_cache_ics[r]) :
      SizeCm2(_cache_ics[r][i], FALSE) = SizeCm2(Unscaled(_cache_ics[r][i]), FALSE)

(* C7 *)
RECURSIVE JoinWithSpaces(_)
JoinWithSpaces(toks) ==
    IF Len(toks) = 0 THEN <<>>
    ELSE IF Len(toks) = 1 THEN toks
    ELSE <<Head(toks), SP>> \o JoinWithSpaces(Tail(toks))

ClaimedLabel(line) ==
    LET f == Split(line)
    IN  JoinWithSpaces(SelectSeq(SubSeq(f, 6, Len(f)), LAMBDA t : t # Empty))

\* C7: the label of each annotation of a first successful ics call is the
\* non-empty tokens of its line from the sixth field on, joined with one
\* space between two tokens and no leading or trailing space.
C7_Label ==
    FreshOk =>
      LET kept == Survivors(last.rec, last.size, last.aspect)
      IN  /\ Len(last.list) = Len(kept)
          /\ \A i \in 1..Len(kept) : last.list[i].text = ClaimedLabel(kept[i])

(* C8 *)
\* C8: a crop rectangle is computed at most once per recording, a stored
\* crop rectangle never changes or disappears, no computation happens for a
\* recording whose rectangle is stored, and a successful imageMasked crops
\* to the stored rectangle.
C8_CropOnce ==
    /\ \A r \in DOMAIN before.crop :
          /\ r \in DOMAIN _cache_cropinfo
          /\ _cache_cropinfo[r] = before.crop[r]
          /\ analyses[r] = before.analyses[r]
    /\ \A r \in RecIds : analyses[r] <= 1
    /\ (last.op = "imageMasked" /\ last.kind = "ok")
          => (last.rec \in DOMAIN _cache_cropinfo
              /\ last.box = _cache_cropinfo[last.rec])

\* one ics call that shifted two annotations after one crop computation
C8_Witness ==
    /\ FreshOk /\ last.cropped
    /\ Len(last.list) >= 2
    /\ analyses[last.rec] = 1
    /\ Len(fs[last.rec].mask.cnt) = 2

(* C9 *)
\* C9: every call for a recording ID that is not registered fails with
\* NotFound, and neither cache holds an entry for an unregistered ID.
C9_NotFound ==
    /\ (last.op \in {"ics", "image", "mask", "imageMasked"} /\ last.rec \notin _recordings)
         => (last.kind = NotFound /\ last.list = <<>>)
    /\ DOMAIN _cache_ics \subseteq _recordings
    /\ DOMAIN _cache_cropinfo \subseteq _recordings

\* an ics call for an unregistered ID whose annotation file exists, made
\* after both caches were filled for another recording
C9_Witness ==
    /\ last.op = "ics" /\ last.rec \notin _recordings
    /\ fs[last.rec].annot.st = "ok"
    /\ DOMAIN _cache_ics # {} /\ DOMAIN _cache_cropinfo # {}

(* C10 *)
\* C10: after a first successful ics call the i-th annotation has the
\* i-th surviving line's centre times scale, minus the stored crop
\* rectangle's corner when cropped, its size times scale and its angle;
\* a successful imageMasked crops to that stored rectangle; an ics call
\* with cropped = false leaves the crop cache unchanged.
C10_Geometry ==
    /\ FreshOk =>
          LET kept == Survivors(last.rec, last.size, last.aspect)
              dx == IF last.cropped THEN F(_cache_cropinfo[last.rec].x) ELSE F(0)
              dy == IF last.cropped THEN F(_cache_cropinfo[last.rec].y) ELSE F(0)
          IN  /\ Len(last.list) = Len(kept)
              /\ \A i \in 1..Len(kept) :
                   LET r == last.list[i].rect
                       f == FileRect(kept[i])
                   IN  /\ r.cx = FSub(FMul(scale, f.cx), dx)
                       /\ r.cy = FSub(FMul(scale, f.cy), dy)
                       /\ r.w = FMul(scale, f.w)
                       /\ r.h = FMul(scale, f.h)
                       /\ r.angle = f.angle
    /\ (last.op = "imageMasked" /\ last.kind = "ok")
          => last.box = _cache_cropinfo[last.rec]
    /\ (last.op = "ics" /\ ~last.cropped) => _cache_cropinfo = before.crop

\* a first successful cropped call at scale 2 with a crop corner off the origin
C10_Witness ==
    /\ FreshOk /\ last.cropped
    /\ scale = F(2)
    /\ Len(last.list) >= 1
    /\ _cache_cropinfo[last.rec].x > 0 /\ _cache_cropinfo[last.rec].y > 0

====
